---- MODULE Spec2Model ----
(***************************************************************************)
(* Model of riverqueue/apiframe: endpoint registration (Mount), the        *)
(* endpoint execution pipeline (executeAPIEndpoint), its error             *)
(* classification (maybeInterpretInternalError) and the error envelope     *)
(* (apierror.APIError).                                                    *)
(*                                                                         *)
(* A Go error is modelled by its chain: the sequence of errors that        *)
(* errors.As / errors.Is visit, in visiting order.                         *)
(***************************************************************************)
EXTENDS Integers, Sequences, FiniteSets, TLC

\* Longest error chain a handler or extractor returns.
MaxChain == 2

\* Most decodes into one ExplicitNullable field.
MaxDecodes == 3

---------------------------------------------------------------------------
\* Program constants.

StatusOK == 200
StatusCreated == 201
StatusBadRequest == 400
StatusNotFound == 404
StatusRequestEntityTooLarge == 413
StatusInternalServerError == 500
StatusServiceUnavailable == 503

InsufficientPrivilege == "42501"
CardinalityViolation == "21000"

ContentTypeJSON == "application/json; charset=utf-8"

MsgTooLarge == "Request entity too large."
MsgUnmarshal == "Error unmarshaling request body: "
MsgConnect == "There was a problem connecting to the configured database. Check logs for details."
MsgPrivilege == "Insufficient database privilege to perform this operation."
MsgTimeout == "Request timed out. Retrying the request might work."
MsgInternal == "Internal server error. Check logs for more information."
\* The Go text quotes the field name with backquotes.
MsgRequired == "Field 'message' is required."
MsgLabelMin == "Field 'label' must be at least 1 character long."
MsgResponseInvalid == "apitest: error validating response API resource"
MsgResponseRequired == "Field validation for 'message' failed on the 'required' tag"

---------------------------------------------------------------------------
\* Errors.

NoError == << >>

Node(kind, status, msg, code, internal) ==
    [kind |-> kind, status |-> status, msg |-> msg, code |-> code, internal |-> internal]

\* apierror.APIError embedded in one of the classified kinds.
APIError(status, msg) == Node("api", status, msg, "", NoError)

NewBadRequest(msg) == APIError(StatusBadRequest, msg)
\* NewBadRequestf with one %s argument followed by a full stop.
NewBadRequestf(format, a) == NewBadRequest(format \o a \o ".")
NewNotFound(msg) == APIError(StatusNotFound, msg)
NewRequestEntityTooLarge(msg) == APIError(StatusRequestEntityTooLarge, msg)
NewInternalServerError(msg) == APIError(StatusInternalServerError, msg)
NewServiceUnavailable(msg) == APIError(StatusServiceUnavailable, msg)

\* SetInternalError on the envelope, which is then returned.
WithInternalError(apiErr, internalErr) == [apiErr EXCEPT !.internal = internalErr]

PlainError == Node("plain", 0, "an internal error occurred", "", NoError)
ConnectError == Node("connect", 0, "failed to connect", "", NoError)
PgError(code) == Node("pg", 0, "postgres error", code, NoError)
DeadlineExceeded == Node("deadline", 0, "context deadline exceeded", "", NoError)
MaxBytesError == Node("maxbytes", 0, "http: request body too large", "", NoError)
ReadError == Node("plain", 0, "unexpected EOF", "", NoError)
WrapError(msg) == Node("plain", 0, msg, "", NoError)
\* validator.ValidationErrors, the error StructCtx returns.
ValidationErrors(violations) == Node("validation", 0, violations[1], "", NoError)

\* The errors user code (a handler, an extractor, a raw responder) builds
\* its return values from.
UserNodes ==
    { PlainError, NewNotFound("Not found."), ConnectError,
      PgError(InsufficientPrivilege), PgError(CardinalityViolation),
      DeadlineExceeded }

RECURSIVE ChainsOfLen(_)
ChainsOfLen(n) ==
    IF n = 0 THEN { << >> }
    ELSE { <<x>> \o c : x \in UserNodes, c \in ChainsOfLen(n - 1) }

UserErrors == UNION { ChainsOfLen(n) : n \in 1..MaxChain }

\* errors.As with a target of the given kind / errors.Is: does the chain
\* hold such an error, and which one is found first.
HasKind(err, kind) == \E i \in 1..Len(err) : err[i].kind = kind

FirstOfKind(err, kind) ==
    err[CHOOSE i \in 1..Len(err) :
            /\ err[i].kind = kind
            /\ \A j \in 1..(i - 1) : err[j].kind # kind]

\* err.Error(): the text the log receives.
ErrorText(err) == [i \in 1..Len(err) |-> err[i].msg]

---------------------------------------------------------------------------
\* Request bodies, request values, responses.

\* The label fragments of the bodies sent to the pipeline.
LabelFragments == { "absent", "empty" }

Body(kind, message, label) == [kind |-> kind, message |-> message, label |-> label]

EmptyBody == Body("empty", "", "absent")

\* The request bodies a client sends: nothing, a JSON object with or without
\* the message and label keys, the literal null, an array, malformed text;
\* and the body streams whose read fails: over the limit of an
\* http.MaxBytesReader, or broken.
Bodies ==
    { EmptyBody, Body("null", "", "absent"), Body("array", "", "absent"),
      Body("malformed", "", "absent"), Body("tooLarge", "", "absent"),
      Body("unreadable", "", "absent") }
    \cup { Body("object", m, l) : m \in { "", "Hello." }, l \in LabelFragments }

BodyLen(body) == IF body.kind = "empty" THEN 0 ELSE 1

\* A payload with one ExplicitNullable[T] field, as testPayload's Label.
VARIABLES
    T,              \* the inner type of the field: ExplicitNullable[T]
    ps,             \* the field
    fragments,      \* the fragments decoded into the field so far, in order
    decodeErr,      \* the error of the last json.Unmarshal of a payload
    validation      \* the outcome of the last validation of the payload

nullableVars == << T, ps, fragments, decodeErr, validation >>

\* apitype.ExplicitNullable: Value is a pointer, << >> is nil.
ExplicitNullable(set, value) == [Set |-> set, Value |-> value]

ZeroNullable == ExplicitNullable(FALSE, << >>)

\* The zero value of the inner type, as its JSON text (integers are held as
\* their digits).
ZeroValue(t) == IF t = "string" THEN "" ELSE "0"

\* UnmarshalJSON that marks the field present only when it gets a value.
UnmarshalJSONSetOnlyOnValue(field, fragment) ==
    IF fragment = "null" THEN field
    ELSE IF fragment = "mismatch"
         THEN [field EXCEPT !.Value = IF @ = << >> THEN << ZeroValue(T) >> ELSE @]
    ELSE IF fragment = "empty" THEN [field EXCEPT !.Set = TRUE, !.Value = << "" >>]
    ELSE [field EXCEPT !.Set = TRUE, !.Value = << fragment >>]

\* ExplicitNullable.UnmarshalJSON on the fragment of a present key: Set
\* first; null returns there; anything else goes to json.Unmarshal into
\* &ps.Value, which allocates the pointee before it decodes, so a fragment of
\* another JSON type leaves a nil Value pointing at the zero value.
UnmarshalJSON(field, fragment) ==
    IF fragment = "null" THEN [field EXCEPT !.Set = TRUE]
    ELSE IF fragment = "mismatch"
         THEN [field EXCEPT !.Set = TRUE,
                            !.Value = IF @ = << >> THEN << ZeroValue(T) >> ELSE @]
    ELSE IF fragment = "empty" THEN [field EXCEPT !.Set = TRUE, !.Value = << "" >>]
    ELSE [field EXCEPT !.Set = TRUE, !.Value = << fragment >>]

\* UnmarshalJSON that drops the error of the inner decode.
UnmarshalJSONErrorDropped(fragment) == NoError

\* The error UnmarshalJSON returns for the fragment.
UnmarshalJSONError(fragment) ==
    IF fragment = "mismatch"
    THEN << WrapError("json: cannot unmarshal into Go value") >>
    ELSE NoError

\* The zero value of the request type (var req TReq).
ZeroRequest == [message |-> "", label |-> ZeroNullable, id |-> "", rawPayload |-> << >>]

\* json.Unmarshal(reqData, &req) for a non-empty body: a JSON object fills
\* the fields of its keys, the literal null has no effect and no error, any
\* other text is an error.
Unmarshal(body, req) ==
    CASE body.kind = "object" ->
            [ok |-> TRUE,
             req |-> [req EXCEPT !.message = body.message,
                                 !.label = IF body.label = "absent" THEN @
                                           ELSE UnmarshalJSON(@, body.label)],
             msg |-> ""]
      [] body.kind = "null" -> [ok |-> TRUE, req |-> req, msg |-> ""]
      [] body.kind = "array" ->
            [ok |-> FALSE, req |-> req,
             msg |-> "json: cannot unmarshal array into Go value"]
      [] OTHER ->
            [ok |-> FALSE, req |-> req,
             msg |-> "invalid character looking for beginning of value"]

\* The extraction with a zero inner value treated as no value.
ExtractSkippingZeroValue(field) ==
    IF ~field.Set \/ field.Value = << >> \/ field.Value = << ZeroValue(T) >>
    THEN << >> ELSE field.Value

\* ExtractExplicitNullableValueForValidation: nil unless set with a value.
ExtractExplicitNullableValueForValidation(field) ==
    IF ~field.Set \/ field.Value = << >> THEN << >> ELSE field.Value

\* validator.StructCtx: the violations of a request value, in field order.
\* The request type tags message "required" (when the endpoint's request
\* type requires it) and label "omitempty,min=1".
Violations(requiresMessage, req) ==
    (IF requiresMessage /\ req.message = "" THEN << MsgRequired >> ELSE << >>)
    \o (IF ExtractExplicitNullableValueForValidation(req.label) = << "" >>
        THEN << MsgLabelMin >> ELSE << >>)

\* validate.PublicFacingMessage: the sentence of the first violation.
PublicFacingMessage(violations) == violations[1]

\* What is written to the response sink: an error envelope's JSON
\* ({"message": ...}), a JSON encoded response, or a raw responder's bytes.
Payload(kind, message, id, rawPayload) ==
    [kind |-> kind, message |-> message, id |-> id, rawPayload |-> rawPayload]

\* json.Marshal of an envelope whose internal error is not hidden.
MarshalAPIErrorWithCause(e) == Payload("envelope", e.msg, "", e.internal)

\* json.Marshal of the envelope: only the message key.
MarshalAPIError(e) == Payload("envelope", e.msg, "", << >>)

\* json.Marshal of a handler's response.
MarshalResponse(resp) == Payload("json", resp.message, resp.id, resp.rawPayload)

RawPayloadBytes == Payload("raw", "raw bytes", "", << >>)

NoResponse == [kind |-> "none", message |-> "", id |-> "", rawPayload |-> << >>, encodable |-> TRUE]

\* The response a handler builds from its request (as the test endpoints do),
\* or a value json.Marshal cannot encode.
Response(req, encodable) ==
    [kind |-> "value", message |-> req.message, id |-> req.id,
     rawPayload |-> req.rawPayload, encodable |-> encodable]

\* validator.StructCtx on a response whose type tags message "required" (as
\* testResponse does its field): the violations, as validator.ValidationErrors.
ResponseViolations(resp) ==
    IF resp.message = "" THEN << MsgResponseRequired >> ELSE << >>

\* http.ResponseWriter: the calls made on it.  The first WriteHeader commits
\* the status; later calls are superfluous.
EmptySink == [headerCalls |-> << >>, contentType |-> "", writes |-> << >>]

WriteHeader(w, status) == [w EXCEPT !.headerCalls = Append(@, status)]
SetContentType(w, ct) == [w EXCEPT !.contentType = ct]
Write(w, payload) == [w EXCEPT !.writes = Append(@, payload)]

\* APIError.Write: content type, status, JSON body; one Write, no retry.
APIErrorWrite(e, w) ==
    Write(WriteHeader(SetContentType(w, ContentTypeJSON), e.status), MarshalAPIError(e))

LogRecord(level, msg, error, internal) ==
    [level |-> level, msg |-> msg, error |-> error, internal |-> internal]

---------------------------------------------------------------------------
\* Error classification.

\* maybeInterpretInternalError without the check of the Postgres error's code.
InterpretAnyPgError(err) ==
    IF HasKind(err, "connect")
    THEN << WithInternalError(NewBadRequest(MsgConnect), err) >>
    ELSE IF HasKind(err, "pg")
         THEN << WithInternalError(NewBadRequest(MsgPrivilege), err) >>
         ELSE err

\* maybeInterpretInternalError: a connect error, or a Postgres error with
\* code InsufficientPrivilege, becomes a BadRequest carrying the original.
maybeInterpretInternalError(err) ==
    IF HasKind(err, "connect")
    THEN << WithInternalError(NewBadRequest(MsgConnect), err) >>
    ELSE IF HasKind(err, "pg")
         THEN IF FirstOfKind(err, "pg").code = InsufficientPrivilege
              THEN << WithInternalError(NewBadRequest(MsgPrivilege), err) >>
              ELSE err
         ELSE err

\* The envelope executeAPIEndpoint writes for the reinterpreted error.
ClassifiedEnvelope(err) ==
    IF HasKind(err, "api") THEN FirstOfKind(err, "api")
    ELSE IF HasKind(err, "deadline") THEN NewServiceUnavailable(MsgTimeout)
    ELSE NewInternalServerError(MsgInternal)

\* The record the pipeline logs for it before writing the envelope.
ClassifiedLog(err) ==
    IF HasKind(err, "api")
    THEN LogRecord("info", "API error response",
                   << FirstOfKind(err, "api").msg >>,
                   ErrorText(FirstOfKind(err, "api").internal))
    ELSE IF HasKind(err, "deadline")
         THEN LogRecord("error", "request timeout", ErrorText(err), << >>)
         ELSE LogRecord("error", "error running API route", ErrorText(err), << >>)

---------------------------------------------------------------------------
\* State.

VARIABLES
    pc,             \* position: Mount, then the steps of executeAPIEndpoint
    endpoint,       \* the mounted endpoint: its types and its Execute
    epLogger,       \* Endpoint.logger, set by SetLogger
    epMeta,         \* Endpoint.meta, set by SetMeta
    metaCalls,      \* the calls of the endpoint's Meta()
    meta,           \* the metadata the handler closure captured
    registered,     \* the router holds the endpoint's handler
    logger,         \* the logger the handler closure passes to the pipeline
    request,        \* the inbound HTTP request: method, body, body stream
    rBody,          \* r.Body: the original stream, drained, or the buffer
    ctxExpired,     \* the derived context's deadline has passed (ctx.Err())
    expiredAtInvoke,\* ctx.Err() was set when Execute was called
    req,            \* var req TReq
    resp,           \* the handler's response
    handlerReturned,\* the call of Execute has returned
    pipelineErr,    \* err returned by the pipeline's inner function
    interpreted,    \* err after maybeInterpretInternalError
    w,              \* the response sink
    log,            \* the records logged
    stages,         \* the pipeline stages run for the request, in order
    direct,         \* the outcome of apitest.InvokeHandler on the same handler
    parked          \* the state of a second execution of the handler closure

vars ==
    << nullableVars, parked,
       pc, endpoint, epLogger, epMeta, metaCalls, meta, registered, logger,
       direct, request, rBody, ctxExpired, expiredAtInvoke, req, resp, handlerReturned, pipelineErr,
       interpreted, w, log, stages >>

\* EndpointMeta values an endpoint's Meta() returns.
Metas ==
    { [Pattern |-> "GET /api/get-endpoint", StatusCode |-> StatusOK],
      [Pattern |-> "POST /api/post-endpoint/{id}", StatusCode |-> StatusCreated],
      [Pattern |-> "", StatusCode |-> StatusOK],
      [Pattern |-> "POST /api/post-endpoint/{id}", StatusCode |-> 0] }

NoMeta == [Pattern |-> "", StatusCode |-> 0]

\* An endpoint: its metadata, whether its request type tags message as
\* required and implements RawExtractor, and whether its response type
\* implements RawResponder.
Endpoints ==
    [meta : Metas, requiresMessage : BOOLEAN, rawExtractor : BOOLEAN,
     rawResponder : BOOLEAN]

NoEndpoint ==
    [meta |-> NoMeta, requiresMessage |-> FALSE, rawExtractor |-> FALSE,
     rawResponder |-> FALSE]

MountOptions == { "nil", "noLogger", "withLogger" }

\* The payload has not been validated.
NoValidation == [extracted |-> FALSE, subject |-> << >>, outcome |-> "none"]

\* InvokeHandler has not been called.
NoResult ==
    [called |-> FALSE, handlerInvoked |-> FALSE, resp |-> NoResponse, err |-> NoError]

\* The method a pattern dispatches.
PatternMethod(pattern) ==
    IF pattern = "GET /api/get-endpoint" THEN "GET" ELSE "POST"

NoRequest == [method |-> "", body |-> EmptyBody]

\* What one execution of the handler closure owns: its position, its request
\* and sink, and the locals of executeAPIEndpoint.
Execution ==
    [pc |-> pc, request |-> request, rBody |-> rBody, ctxExpired |-> ctxExpired,
     expiredAtInvoke |-> expiredAtInvoke, req |-> req, resp |-> resp,
     handlerReturned |-> handlerReturned, pipelineErr |-> pipelineErr,
     interpreted |-> interpreted, w |-> w, stages |-> stages, direct |-> direct]

\* An execution the router has not started yet.
IdleExecution ==
    [pc |-> "ready", request |-> NoRequest, rBody |-> "original", ctxExpired |-> FALSE,
     expiredAtInvoke |-> FALSE, req |-> ZeroRequest, resp |-> NoResponse,
     handlerReturned |-> FALSE, pipelineErr |-> NoError, interpreted |-> NoError,
     w |-> EmptySink, stages |-> << >>, direct |-> NoResult]

\* io.ReadAll on the original body stream: the error it ends with.
ReadAllError(body) ==
    CASE body.kind = "tooLarge" -> << MaxBytesError >>
      [] body.kind = "unreadable" -> << ReadError >>
      [] OTHER -> NoError

Init ==
    /\ pc = "unmounted"
    /\ endpoint = NoEndpoint
    /\ epLogger = "unset"
    /\ epMeta = NoMeta
    /\ metaCalls = 0
    /\ meta = NoMeta
    /\ registered = FALSE
    /\ logger = "nil"
    /\ request = NoRequest
    /\ rBody = "original"
    /\ ctxExpired = FALSE
    /\ expiredAtInvoke = FALSE
    /\ req = ZeroRequest
    /\ resp = NoResponse
    /\ handlerReturned = FALSE
    /\ pipelineErr = NoError
    /\ interpreted = NoError
    /\ w = EmptySink
    /\ log = << >>
    /\ stages = << >>
    /\ direct = NoResult
    /\ parked = IdleExecution
    /\ T = "string"
    /\ ps = ZeroNullable
    /\ fragments = << >>
    /\ decodeErr = NoError
    /\ validation = NoValidation

---------------------------------------------------------------------------
\* Mount.

\* validate with the test of the pattern only.
MetaValidPatternOnly(m) == m.Pattern # ""

\* EndpointMeta.validate: panics on an empty pattern or a zero status code.
MetaValid(m) == m.Pattern # "" /\ m.StatusCode # 0

\* The logger Mount hands to executeAPIEndpoint in the handler closure.
ClosureLogger(opts) == IF opts = "withLogger" THEN "custom" ELSE "nil"

\* The logger Mount gives the endpoint through SetLogger.
MountLogger(opts) == IF opts = "withLogger" THEN "custom" ELSE "default"

Mount(apiEndpoint, opts) ==
    /\ pc = "unmounted"
    /\ epLogger' = MountLogger(opts)
    /\ endpoint' = apiEndpoint
    /\ metaCalls' = metaCalls + 1
    /\ IF MetaValid(apiEndpoint.meta)
       THEN /\ epMeta' = apiEndpoint.meta
            /\ meta' = apiEndpoint.meta
            /\ logger' = ClosureLogger(opts)
            /\ registered' = TRUE
            /\ pc' = "ready"
       ELSE /\ pc' = "mountPanic"
            /\ UNCHANGED << epMeta, meta, logger, registered >>
    /\ UNCHANGED << nullableVars, parked, direct, request, rBody, ctxExpired, expiredAtInvoke, req, resp,
                    handlerReturned, pipelineErr, interpreted, w, log, stages >>

---------------------------------------------------------------------------
\* executeAPIEndpoint, step by step.

\* Serve without the test of the request's method: every body is read.
ServeReadingEveryBody(body, inboundExpired) ==
    /\ pc = "ready"
    /\ registered
    /\ request' = [method |-> PatternMethod(meta.Pattern), body |-> body]
    /\ ctxExpired' = inboundExpired
    /\ pc' = "readBody"
    /\ UNCHANGED << nullableVars, parked, endpoint, epLogger, epMeta, metaCalls, meta,
                    registered, logger, direct, rBody,
                    expiredAtInvoke, req, resp, handlerReturned, pipelineErr,
                    interpreted, w, log, stages >>

\* The router dispatches a request to the handler closure, which derives the
\* timeout context (already done when the inbound context's deadline passed).
Serve(body, inboundExpired) ==
    /\ pc = "ready"
    /\ registered
    /\ request' = [method |-> PatternMethod(meta.Pattern), body |-> body]
    /\ ctxExpired' = inboundExpired
    /\ pc' = IF PatternMethod(meta.Pattern) # "GET" THEN "readBody" ELSE "extract"
    /\ UNCHANGED << nullableVars, parked, endpoint, epLogger, epMeta, metaCalls, meta,
                    registered, logger, direct, rBody,
                    expiredAtInvoke, req, resp, handlerReturned, pipelineErr,
                    interpreted, w, log, stages >>

\* Timeout in a pipeline that selects on ctx.Done() while Execute runs: the
\* wait is abandoned with the context's error.
TimeoutAbandoningHandler ==
    /\ pc \in { "readBody", "decode", "extract", "validate", "execute",
                "executing", "respond", "classify" }
    /\ ~ctxExpired
    /\ ctxExpired' = TRUE
    /\ IF pc = "executing"
       THEN /\ pc' = "classify"
            /\ pipelineErr' = << DeadlineExceeded >>
       ELSE UNCHANGED << pc, pipelineErr >>
    /\ UNCHANGED << nullableVars, parked, endpoint, epLogger, epMeta, metaCalls, meta,
                    registered, logger, direct, request,
                    rBody, expiredAtInvoke, req, resp, handlerReturned,
                    interpreted, w, log, stages >>

\* The derived context's deadline passes while the pipeline runs.
Timeout ==
    /\ pc \in { "readBody", "decode", "extract", "validate", "execute",
                "executing", "respond", "classify" }
    /\ ~ctxExpired
    /\ ctxExpired' = TRUE
    /\ UNCHANGED << nullableVars, parked, pc, endpoint, epLogger, epMeta, metaCalls, meta,
                    registered, logger, direct, request,
                    rBody, expiredAtInvoke, req, resp, handlerReturned, pipelineErr,
                    interpreted, w, log, stages >>

Fail(err) ==
    /\ pipelineErr' = err
    /\ pc' = "classify"

\* io.ReadAll(r.Body) for a method other than GET.
ReadBody ==
    /\ pc = "readBody"
    /\ stages' = Append(stages, "readBody")
    /\ rBody' = "drained"
    /\ IF ReadAllError(request.body) # NoError
       THEN IF HasKind(ReadAllError(request.body), "maxbytes")
            THEN Fail(<< NewRequestEntityTooLarge(MsgTooLarge) >>)
            ELSE Fail(<< WrapError("error reading request body") >>
                      \o ReadAllError(request.body))
       ELSE /\ pc' = "decode"
            /\ UNCHANGED pipelineErr
    /\ UNCHANGED << nullableVars, parked, endpoint, epLogger, epMeta, metaCalls, meta,
                    registered, logger, direct, request,
                    ctxExpired, expiredAtInvoke, req, resp, handlerReturned,
                    interpreted, w, log >>

\* Decode without the replacement of r.Body: the stream stays consumed.
DecodeLeavingBodyDrained ==
    /\ pc = "decode"
    /\ IF BodyLen(request.body) > 0
       THEN /\ stages' = Append(stages, "decode")
            /\ req' = Unmarshal(request.body, req).req
            /\ IF Unmarshal(request.body, req).ok
               THEN /\ pc' = "extract"
                    /\ UNCHANGED pipelineErr
               ELSE Fail(<< NewBadRequestf(MsgUnmarshal, Unmarshal(request.body, req).msg) >>)
       ELSE /\ pc' = "extract"
            /\ UNCHANGED << stages, req, pipelineErr >>
    /\ UNCHANGED << nullableVars, parked, endpoint, epLogger, epMeta, metaCalls, meta,
                    registered, logger, direct, request, rBody,
                    ctxExpired, expiredAtInvoke, resp, handlerReturned, interpreted,
                    w, log >>

\* json.Unmarshal of a non-empty body, then r.Body becomes a reader over the
\* bytes read.
Decode ==
    /\ pc = "decode"
    /\ IF BodyLen(request.body) > 0
       THEN /\ stages' = Append(stages, "decode")
            /\ req' = Unmarshal(request.body, req).req
            /\ IF Unmarshal(request.body, req).ok
               THEN /\ rBody' = "buffered"
                    /\ pc' = "extract"
                    /\ UNCHANGED pipelineErr
               ELSE /\ Fail(<< NewBadRequestf(MsgUnmarshal, Unmarshal(request.body, req).msg) >>)
                    /\ UNCHANGED rBody
       ELSE /\ rBody' = "buffered"
            /\ pc' = "extract"
            /\ UNCHANGED << stages, req, pipelineErr >>
    /\ UNCHANGED << nullableVars, parked, endpoint, epLogger, epMeta, metaCalls, meta,
                    registered, logger, direct, request,
                    ctxExpired, expiredAtInvoke, resp, handlerReturned, interpreted,
                    w, log >>

\* rawExtractor.ExtractRaw(r), when the request type implements it.  The
\* extractor reads r.Body and the path value as postRequest.ExtractRaw does,
\* or returns an error of its own choice.
ExtractRawReads ==
    /\ stages' = Append(stages, "extractRaw")
    /\ IF rBody = "original" /\ ReadAllError(request.body) # NoError
       THEN /\ Fail(ReadAllError(request.body))
            /\ rBody' = "drained"
            /\ UNCHANGED req
       ELSE /\ req' = [req EXCEPT !.id = "123",
                                  !.rawPayload = IF rBody \in { "original", "buffered" }
                                                    /\ BodyLen(request.body) > 0
                                                 THEN << request.body >> ELSE << >>]
            /\ rBody' = "drained"
            /\ pc' = "validate"
            /\ UNCHANGED pipelineErr

ExtractRawFails(err) ==
    /\ stages' = Append(stages, "extractRaw")
    /\ Fail(err)
    /\ UNCHANGED << req, rBody >>

ExtractRaw ==
    /\ pc = "extract"
    /\ IF endpoint.rawExtractor
       THEN \/ ExtractRawReads
            \/ \E err \in UserErrors : ExtractRawFails(err)
       ELSE /\ pc' = "validate"
            /\ UNCHANGED << stages, req, rBody, pipelineErr >>
    /\ UNCHANGED << nullableVars, parked, endpoint, epLogger, epMeta, metaCalls, meta,
                    registered, logger, direct, request,
                    ctxExpired, expiredAtInvoke, resp, handlerReturned, interpreted,
                    w, log >>

\* Validate without the return on a violation: the error is kept and the
\* handler is called all the same.
ValidateWithoutReturn ==
    /\ pc = "validate"
    /\ stages' = Append(stages, "validate")
    /\ pipelineErr' =
          IF Violations(endpoint.requiresMessage, req) # << >>
          THEN << NewBadRequest(
                    PublicFacingMessage(Violations(endpoint.requiresMessage, req))) >>
          ELSE pipelineErr
    /\ pc' = "execute"
    /\ UNCHANGED << nullableVars, parked, endpoint, epLogger, epMeta, metaCalls, meta,
                    registered, logger, direct, request, rBody,
                    ctxExpired, expiredAtInvoke, req, resp, handlerReturned,
                    interpreted, w, log >>

\* validator.StructCtx(ctx, &req).
Validate ==
    /\ pc = "validate"
    /\ stages' = Append(stages, "validate")
    /\ IF Violations(endpoint.requiresMessage, req) # << >>
       THEN Fail(<< NewBadRequest(
                PublicFacingMessage(Violations(endpoint.requiresMessage, req))) >>)
       ELSE /\ pc' = "execute"
            /\ UNCHANGED pipelineErr
    /\ UNCHANGED << nullableVars, parked, endpoint, epLogger, epMeta, metaCalls, meta,
                    registered, logger, direct, request, rBody,
                    ctxExpired, expiredAtInvoke, req, resp, handlerReturned,
                    interpreted, w, log >>

\* execute(ctx, &req) is called: the pipeline waits in the call.
Invoke ==
    /\ pc = "execute"
    /\ stages' = Append(stages, "execute")
    /\ expiredAtInvoke' = ctxExpired
    /\ pc' = "executing"
    /\ UNCHANGED << nullableVars, parked, endpoint, epLogger, epMeta, metaCalls, meta,
                    registered, logger, direct, request, rBody,
                    ctxExpired, req, resp, handlerReturned, pipelineErr, interpreted,
                    w, log >>

\* Execute returns.  The handler is the endpoint's own code: it returns any
\* error (ctx.Err() among them, when it looks at its context) or a response.
HandlerReturnsError(err) ==
    /\ pc = "executing"
    /\ handlerReturned' = TRUE
    /\ Fail(err)
    /\ UNCHANGED << nullableVars, parked, endpoint, epLogger, epMeta, metaCalls, meta,
                    registered, logger, direct, request, rBody,
                    ctxExpired, expiredAtInvoke, req, resp, interpreted, w, log,
                    stages >>

HandlerReturnsResponse(encodable) ==
    /\ pc = "executing"
    /\ handlerReturned' = TRUE
    /\ resp' = Response(req, encodable)
    /\ pc' = "respond"
    /\ UNCHANGED << nullableVars, parked, endpoint, epLogger, epMeta, metaCalls, meta,
                    registered, logger, direct, request, rBody,
                    ctxExpired, expiredAtInvoke, req, pipelineErr, interpreted, w,
                    log, stages >>

\* resp.RespondRaw(w): the response type writes what it wants and returns
\* nil or an error.
RespondRaw(wrote, err) ==
    /\ endpoint.rawResponder
    /\ w' = IF wrote THEN Write(WriteHeader(w, StatusOK), RawPayloadBytes) ELSE w
    /\ IF err = NoError
       THEN /\ pc' = "done"
            /\ UNCHANGED pipelineErr
       ELSE Fail(err)

\* RespondJSON with a validation of the response before it is encoded.
RespondJSONValidatingResponse(writeOK) ==
    /\ ~endpoint.rawResponder
    /\ IF ResponseViolations(resp) # << >>
       THEN /\ Fail(<< WrapError("error validating response"),
                       ValidationErrors(ResponseViolations(resp)) >>)
            /\ UNCHANGED w
       ELSE IF ~resp.encodable
            THEN /\ Fail(<< WrapError("error marshaling response JSON"),
                            WrapError("json: unsupported type") >>)
                 /\ UNCHANGED w
            ELSE /\ w' = Write(WriteHeader(SetContentType(w, ContentTypeJSON),
                                           meta.StatusCode),
                               MarshalResponse(resp))
                 /\ IF writeOK
                    THEN /\ pc' = "done"
                         /\ UNCHANGED pipelineErr
                    ELSE Fail(<< WrapError("error writing response"),
                                 WrapError("broken pipe") >>)

\* json.Marshal(resp), content type, configured status, body.
RespondJSON(writeOK) ==
    /\ ~endpoint.rawResponder
    /\ IF ~resp.encodable
       THEN /\ Fail(<< WrapError("error marshaling response JSON"),
                       WrapError("json: unsupported type") >>)
            /\ UNCHANGED w
       ELSE /\ w' = Write(WriteHeader(SetContentType(w, ContentTypeJSON),
                                      meta.StatusCode),
                          MarshalResponse(resp))
            /\ IF writeOK
               THEN /\ pc' = "done"
                    /\ UNCHANGED pipelineErr
               ELSE Fail(<< WrapError("error writing response"),
                            WrapError("broken pipe") >>)

Respond ==
    /\ pc = "respond"
    /\ stages' = Append(stages, "respond")
    /\ \/ \E wrote \in BOOLEAN, err \in { NoError, << PlainError >> } :
             RespondRaw(wrote, err)
       \/ \E writeOK \in BOOLEAN : RespondJSON(writeOK)
    /\ UNCHANGED << nullableVars, parked, endpoint, epLogger, epMeta, metaCalls, meta,
                    registered, logger, direct, request, rBody,
                    ctxExpired, expiredAtInvoke, req, resp, handlerReturned,
                    interpreted, log >>

\* The error branch of executeAPIEndpoint: reinterpret, log, write one
\* envelope.  Every branch logs before it writes; a call on the nil logger
\* panics, and the panic ends the handler with nothing written.
Classify(writeOK) ==
    /\ pc = "classify"
    /\ interpreted' = maybeInterpretInternalError(pipelineErr)
    /\ IF logger = "nil"
       THEN /\ pc' = "panicked"
            /\ UNCHANGED << w, log >>
       ELSE /\ pc' = "done"
            /\ w' = APIErrorWrite(ClassifiedEnvelope(interpreted'), w)
            /\ log' = Append(log, ClassifiedLog(interpreted'))
                      \o (IF writeOK THEN << >>
                          ELSE << LogRecord("error", "error writing API error",
                                            << "broken pipe" >>, << >>) >>)
    /\ UNCHANGED << nullableVars, parked, endpoint, epLogger, epMeta, metaCalls, meta,
                    registered, logger, direct, request, rBody,
                    ctxExpired, expiredAtInvoke, req, resp, handlerReturned,
                    pipelineErr, stages >>

---------------------------------------------------------------------------
\* apitest.InvokeHandler.

\* The handler has ended, by returning or by panicking.
Terminal == pc \in { "done", "panicked" }

LastStage == IF stages = << >> THEN "" ELSE stages[Len(stages)]

Ran(stage) == \E i \in 1..Len(stages) : stages[i] = stage

\* The endpoint's Execute as a function value: what it returns for the
\* request value of the run (an error, or a response).
Execute ==
    [err |-> IF LastStage = "execute" THEN pipelineErr ELSE NoError, resp |-> resp]

InvokeResult(handlerInvoked, response, err) ==
    [called |-> TRUE, handlerInvoked |-> handlerInvoked, resp |-> response, err |-> err]

\* InvokeHandler that returns the handler's response without validating it.
InvokeHandlerWithoutResponseValidation(handler, r) ==
    /\ Terminal
    /\ Ran("validate")
    /\ ~direct.called
    /\ direct' =
          IF Violations(endpoint.requiresMessage, r) # << >>
          THEN InvokeResult(FALSE, NoResponse,
                  << NewBadRequest(
                        PublicFacingMessage(Violations(endpoint.requiresMessage, r))) >>)
          ELSE IF handler.err # NoError
               THEN InvokeResult(TRUE, NoResponse, handler.err)
               ELSE InvokeResult(TRUE, handler.resp, NoError)
    /\ UNCHANGED << nullableVars, parked, pc, endpoint, epLogger, epMeta, metaCalls, meta, registered,
                    logger, request, rBody, ctxExpired, expiredAtInvoke, req, resp,
                    handlerReturned, pipelineErr, interpreted, w, log, stages >>

\* InvokeHandler(ctx, handler, nil, r), called with the handler and the
\* request value of a pipeline run that has ended: validate the request,
\* call the handler, validate its response.
InvokeHandler(handler, r) ==
    /\ Terminal
    /\ Ran("validate")
    /\ ~direct.called
    /\ direct' =
          IF Violations(endpoint.requiresMessage, r) # << >>
          THEN InvokeResult(FALSE, NoResponse,
                  << NewBadRequest(
                        PublicFacingMessage(Violations(endpoint.requiresMessage, r))) >>)
          ELSE IF handler.err # NoError
               THEN InvokeResult(TRUE, NoResponse, handler.err)
               ELSE IF ResponseViolations(handler.resp) # << >>
                    THEN InvokeResult(TRUE, NoResponse,
                            << WrapError(MsgResponseInvalid),
                               ValidationErrors(ResponseViolations(handler.resp)) >>)
                    ELSE InvokeResult(TRUE, handler.resp, NoError)
    /\ UNCHANGED << nullableVars, parked, pc, endpoint, epLogger, epMeta, metaCalls, meta, registered,
                    logger, request, rBody, ctxExpired, expiredAtInvoke, req, resp,
                    handlerReturned, pipelineErr, interpreted, w, log, stages >>

---------------------------------------------------------------------------
\* apitype.ExplicitNullable and the validator of apitype.NewValidator.

InnerTypes == { "string", "int" }

\* What a payload holds for the field's key: no key, the literal null, a
\* value of the inner type (its zero value among them), a value of another
\* JSON type, or text that is not JSON at all.
Fragments(t) ==
    { "absent", "null", "mismatch", "malformed" }
    \cup (IF t = "string" THEN { "empty", "a" } ELSE { "0", "1" })

\* The inner types NewValidator registers the extraction hook for.
RegisteredTypes == { "string" }

\* What the validator's rules make of a field they are applied to without
\* extraction (a struct, not its inner value).
UnextractedOutcomes == { "valid", "invalid", "panic" }

pipelineVars ==
    << parked, pc, endpoint, epLogger, epMeta, metaCalls, meta, registered, logger,
       direct, request, rBody, ctxExpired, expiredAtInvoke, req, resp,
       handlerReturned, pipelineErr, interpreted, w, log, stages >>

\* json.Unmarshal of a payload into a struct with the field.  Text that is
\* not JSON is rejected before any field is touched; an absent key leaves the
\* field alone; a present key calls the field's UnmarshalJSON, whose error
\* is the error of the whole decode.
UnmarshalPayload(fragment) ==
    /\ Len(fragments) < MaxDecodes
    /\ fragments' = Append(fragments, fragment)
    /\ ps' = IF fragment \in { "absent", "malformed" } THEN ps
             ELSE UnmarshalJSON(ps, fragment)
    /\ decodeErr' =
          IF fragment = "malformed"
          THEN << WrapError("invalid character looking for beginning of value") >>
          ELSE IF fragment = "absent" THEN NoError
          ELSE UnmarshalJSONError(fragment)
    /\ validation' = NoValidation
    /\ UNCHANGED << T, pipelineVars >>

\* validate.Struct(payload) with the validator of NewValidator and the rule
\* omitempty,min=1 on the field.  The hook is called for a field whose type
\* was registered, and the rules run on what it returns (nothing: skipped).
ValidateStruct ==
    /\ validation.outcome = "none"
    /\ IF T \in RegisteredTypes
       THEN validation' =
               [extracted |-> TRUE,
                subject |-> ExtractExplicitNullableValueForValidation(ps),
                outcome |-> IF Violations(FALSE, [ZeroRequest EXCEPT !.label = ps]) = << >>
                            THEN "valid" ELSE "invalid"]
       ELSE IF ps = ZeroNullable
            THEN validation' = [extracted |-> FALSE, subject |-> << >>, outcome |-> "valid"]
            ELSE \E o \in UnextractedOutcomes :
                    validation' = [extracted |-> FALSE, subject |-> << ps >>, outcome |-> o]
    /\ UNCHANGED << T, ps, fragments, decodeErr, pipelineVars >>

NullableInit ==
    /\ T \in InnerTypes
    /\ ps = ZeroNullable
    /\ fragments = << >>
    /\ decodeErr = NoError
    /\ validation = NoValidation
    /\ parked = IdleExecution
    /\ pc = "unmounted"
    /\ endpoint = NoEndpoint
    /\ epLogger = "unset"
    /\ epMeta = NoMeta
    /\ metaCalls = 0
    /\ meta = NoMeta
    /\ registered = FALSE
    /\ logger = "nil"
    /\ direct = NoResult
    /\ request = NoRequest
    /\ rBody = "original"
    /\ ctxExpired = FALSE
    /\ expiredAtInvoke = FALSE
    /\ req = ZeroRequest
    /\ resp = NoResponse
    /\ handlerReturned = FALSE
    /\ pipelineErr = NoError
    /\ interpreted = NoError
    /\ w = EmptySink
    /\ log = << >>
    /\ stages = << >>

NullableNext ==
    \/ \E fragment \in Fragments(T) : UnmarshalPayload(fragment)
    \/ ValidateStruct

NullableSpec == NullableInit /\ [][NullableNext]_vars

---------------------------------------------------------------------------
\* Two requests served at the same time.

\* The scheduler with the decoded request value held in one place for both
\* executions instead of in each execution's frame.
SwitchWithSharedRequestValue ==
    /\ registered
    /\ parked' = Execution
    /\ pc' = parked.pc
    /\ request' = parked.request
    /\ rBody' = parked.rBody
    /\ ctxExpired' = parked.ctxExpired
    /\ expiredAtInvoke' = parked.expiredAtInvoke
    /\ resp' = parked.resp
    /\ handlerReturned' = parked.handlerReturned
    /\ pipelineErr' = parked.pipelineErr
    /\ interpreted' = parked.interpreted
    /\ w' = parked.w
    /\ stages' = parked.stages
    /\ direct' = parked.direct
    /\ UNCHANGED << nullableVars, req, endpoint, epLogger, epMeta, metaCalls, meta,
                    registered, logger, log >>

\* net/http runs the handler closure in one goroutine per request: the
\* scheduler leaves one execution where it is and goes on with the other.
\* Each has its own w, r and ctx and its own locals of executeAPIEndpoint;
\* the endpoint, its metadata, the logger and the log output are the same
\* for both.
Switch ==
    /\ registered
    /\ parked' = Execution
    /\ pc' = parked.pc
    /\ request' = parked.request
    /\ rBody' = parked.rBody
    /\ ctxExpired' = parked.ctxExpired
    /\ expiredAtInvoke' = parked.expiredAtInvoke
    /\ req' = parked.req
    /\ resp' = parked.resp
    /\ handlerReturned' = parked.handlerReturned
    /\ pipelineErr' = parked.pipelineErr
    /\ interpreted' = parked.interpreted
    /\ w' = parked.w
    /\ stages' = parked.stages
    /\ direct' = parked.direct
    /\ UNCHANGED << nullableVars, endpoint, epLogger, epMeta, metaCalls, meta,
                    registered, logger, log >>

\* The endpoint, requests and handler results of the concurrent runs.
ConcurrentEndpoints ==
    { e \in Endpoints :
        /\ e.meta = [Pattern |-> "POST /api/post-endpoint/{id}", StatusCode |-> StatusCreated]
        /\ ~e.rawExtractor
        /\ ~e.rawResponder }

ConcurrentBodies ==
    { Body("object", "Hello.", "absent"), Body("object", "", "absent"),
      Body("malformed", "", "absent") }

ConcurrentErrors == { << PlainError >>, << NewNotFound("Not found.") >> }

ConcurrentNext ==
    \/ \E apiEndpoint \in ConcurrentEndpoints, opts \in MountOptions :
          Mount(apiEndpoint, opts)
    \/ \E body \in ConcurrentBodies : Serve(body, FALSE)
    \/ Timeout
    \/ ReadBody
    \/ Decode
    \/ ExtractRaw
    \/ Validate
    \/ Invoke
    \/ \E err \in ConcurrentErrors : HandlerReturnsError(err)
    \/ HandlerReturnsResponse(TRUE)
    \/ Respond
    \/ \E writeOK \in BOOLEAN : Classify(writeOK)
    \/ Switch

ConcurrentSpec == Init /\ [][ConcurrentNext]_vars

---------------------------------------------------------------------------
\* Specifications.

Next ==
    \/ \E apiEndpoint \in Endpoints, opts \in MountOptions : Mount(apiEndpoint, opts)
    \/ \E body \in Bodies, inboundExpired \in BOOLEAN : Serve(body, inboundExpired)
    \/ Timeout
    \/ ReadBody
    \/ Decode
    \/ ExtractRaw
    \/ Validate
    \/ Invoke
    \/ \E err \in UserErrors : HandlerReturnsError(err)
    \/ \E encodable \in BOOLEAN : HandlerReturnsResponse(encodable)
    \/ Respond
    \/ \E writeOK \in BOOLEAN : Classify(writeOK)
    \/ InvokeHandler(Execute, req)

Spec == Init /\ [][Next]_vars

\* The pipeline's own steps run to completion once the router has called the
\* handler; nothing makes a handler's Execute return.
PipelineStep ==
    \/ ReadBody
    \/ Decode
    \/ ExtractRaw
    \/ Validate
    \/ Invoke
    \/ Respond
    \/ \E writeOK \in BOOLEAN : Classify(writeOK)

FairSpec == Spec /\ WF_vars(PipelineStep)

---------------------------------------------------------------------------
\* Properties.

\* The error envelopes written to the sink.
EnvelopeWrites == { i \in 1..Len(w.writes) : w.writes[i].kind = "envelope" }

\* The sink holds exactly the response of envelope e.
AnsweredWith(e) ==
    /\ w.headerCalls = << e.status >>
    /\ w.contentType = ContentTypeJSON
    /\ w.writes = << MarshalAPIError(e) >>

\* A backend failure the classification reinterprets.
Reinterpretable(err) ==
    \/ HasKind(err, "connect")
    \/ \E i \in 1..Len(err) : err[i].kind = "pg" /\ err[i].code = InsufficientPrivilege

Unclassified(err) ==
    /\ err # NoError
    /\ ~HasKind(err, "api")
    /\ ~Reinterpretable(err)
    /\ ~HasKind(err, "deadline")

\* The request value failed validation (the pipeline's last stage).
ValidationFailed ==
    /\ LastStage = "validate"
    /\ Violations(endpoint.requiresMessage, req) # << >>

\* C1: a request that violates a validation rule is answered with the
\* BadRequest envelope of the validator's first violation, and Execute is not
\* invoked for it.
C1_ValidationErrorIsBadRequest ==
    (Terminal /\ ValidationFailed) =>
        /\ AnsweredWith(NewBadRequest(Violations(endpoint.requiresMessage, req)[1]))
        /\ ~Ran("execute")

\* The envelope the stated precedence selects: the error's own envelope
\* first, then the BadRequest of a backend failure that
\* maybeInterpretInternalError recognises, then the deadline, then the
\* generic one.
PrecedenceEnvelope(err) ==
    IF HasKind(err, "api") THEN FirstOfKind(err, "api")
    ELSE IF maybeInterpretInternalError(err) # err
         THEN [maybeInterpretInternalError(err)[1] EXCEPT !.internal = NoError]
    ELSE IF HasKind(err, "deadline") THEN NewServiceUnavailable(MsgTimeout)
    ELSE NewInternalServerError(MsgInternal)

\* C2: the envelope written for a pipeline error follows the precedence
\* envelope carried by the error, reinterpreted backend failure, deadline,
\* generic internal error; an error that carries an envelope is never
\* replaced by a reinterpreted BadRequest.
C2_ClassificationPrecedence ==
    (pc = "done" /\ pipelineErr # NoError) =>
        /\ EnvelopeWrites # { }
        /\ \A i \in EnvelopeWrites :
              w.writes[i] = MarshalAPIError(PrecedenceEnvelope(pipelineErr))
        /\ w.headerCalls[Len(w.headerCalls)] = PrecedenceEnvelope(pipelineErr).status

\* C3: a pipeline run that ends in an error writes exactly one error envelope
\* to the sink, whatever the mount options were.
C3_ExactlyOneEnvelope ==
    (Terminal /\ pipelineErr # NoError) => Cardinality(EnvelopeWrites) = 1

\* C4: a request whose deadline had passed when the handler was invoked is
\* answered with 503 and the timeout message.
C4_ExpiredDeadlineIs503 ==
    (Terminal /\ Ran("execute") /\ expiredAtInvoke) =>
        AnsweredWith(NewServiceUnavailable(MsgTimeout))

C6_UnclassifiedIsGeneric500 ==
    (Terminal /\ Unclassified(pipelineErr)) =>
        /\ AnsweredWith(NewInternalServerError(MsgInternal))
        /\ \E i \in 1..Len(log) :
              log[i].level = "error" /\ log[i].error = ErrorText(pipelineErr)

\* The error of the run has been through maybeInterpretInternalError.
Interpreted == pc \in { "done", "panicked" } /\ pipelineErr # NoError

\* C7 as stated: a chain that contains a connect error becomes the connect
\* BadRequest, a chain that contains a Postgres error with code
\* InsufficientPrivilege becomes the privilege BadRequest, the original
\* attached; every other error is returned unchanged.
C7_InterpretsListedFailures ==
    Interpreted =>
        /\ HasKind(pipelineErr, "connect") =>
              interpreted = << WithInternalError(NewBadRequest(MsgConnect), pipelineErr) >>
        /\ (\E i \in 1..Len(pipelineErr) :
               pipelineErr[i].kind = "pg" /\ pipelineErr[i].code = InsufficientPrivilege) =>
              interpreted = << WithInternalError(NewBadRequest(MsgPrivilege), pipelineErr) >>
        /\ ~Reinterpretable(pipelineErr) => interpreted = pipelineErr

\* C7 as amended: the connect error is looked for first, and of the Postgres
\* errors only the first one in the chain (the one errors.As finds) decides.
\* A chain with a connect error becomes the connect BadRequest; a chain
\* without one whose first Postgres error has code InsufficientPrivilege
\* becomes the privilege BadRequest; both carry the original error as the
\* internal cause; every other error is returned unchanged.
C7_InterpretsFirstMatch ==
    Interpreted =>
        IF HasKind(pipelineErr, "connect")
        THEN interpreted = << WithInternalError(NewBadRequest(MsgConnect), pipelineErr) >>
        ELSE IF HasKind(pipelineErr, "pg")
                /\ FirstOfKind(pipelineErr, "pg").code = InsufficientPrivilege
             THEN interpreted =
                     << WithInternalError(NewBadRequest(MsgPrivilege), pipelineErr) >>
             ELSE interpreted = pipelineErr

\* A Postgres error with another code comes before one with
\* InsufficientPrivilege, and the chain was returned unchanged.
C7_Witness ==
    /\ Interpreted
    /\ pipelineErr = << PgError(CardinalityViolation), PgError(InsufficientPrivilege) >>
    /\ interpreted = pipelineErr

\* C8: for a GET request the body is neither read nor decoded: no body read
\* or decode stage runs, the pipeline produces no decode failure and no 413,
\* the body stream is the original one when raw extraction starts, and the
\* request value is the zero value there (and stays zero in the fields a
\* body would fill).
C8_GetIgnoresBody ==
    request.method = "GET" =>
        /\ ~Ran("readBody")
        /\ ~Ran("decode")
        /\ req.message = ZeroRequest.message
        /\ req.label = ZeroRequest.label
        /\ (pc = "extract" \/ ~endpoint.rawExtractor) =>
              (req = ZeroRequest /\ rBody = "original")
        /\ pipelineErr \notin
              { << NewRequestEntityTooLarge(MsgTooLarge) >> }
              \cup { << NewBadRequestf(MsgUnmarshal, Unmarshal(b, ZeroRequest).msg) >> :
                       b \in Bodies }
        /\ \A i \in 1..Len(w.headerCalls) :
              w.headerCalls[i] # StatusRequestEntityTooLarge

\* A GET request with a malformed body was answered by the handler.
C8_Witness ==
    /\ request.method = "GET"
    /\ request.body.kind = "malformed"
    /\ pc = "done"
    /\ Ran("execute")
    /\ w.headerCalls = << StatusOK >>

\* C9: for a request other than GET whose body read fails on the size limit
\* the answer is 413 "Request entity too large." and no later stage runs; any
\* other read failure is answered with 500.
C9_TooLargeIs413 ==
    (Terminal /\ request.method = "POST") =>
        /\ request.body.kind = "tooLarge" =>
              /\ AnsweredWith(NewRequestEntityTooLarge(MsgTooLarge))
              /\ stages = << "readBody" >>
        /\ request.body.kind = "unreadable" =>
              /\ AnsweredWith(NewInternalServerError(MsgInternal))
              /\ stages = << "readBody" >>

\* The fixed order of the pipeline's stages.
StageRank(stage) ==
    CASE stage = "readBody" -> 1
      [] stage = "decode" -> 2
      [] stage = "extractRaw" -> 3
      [] stage = "validate" -> 4
      [] stage = "execute" -> 5
      [] stage = "respond" -> 6

\* C10: a stage runs only when no earlier stage has failed, and it comes
\* later in the fixed order than every stage run before it (so each stage
\* runs at most once, and raw extraction after decode and before validation);
\* raw extraction runs only for a request type that implements it.
C10_StagesInOrder ==
    [][stages' # stages =>
          /\ pipelineErr = NoError
          /\ Len(stages') = Len(stages) + 1
          /\ SubSeq(stages', 1, Len(stages)) = stages
          /\ \A i \in 1..Len(stages) :
                StageRank(stages[i]) < StageRank(stages'[Len(stages')])
          /\ stages'[Len(stages')] = "extractRaw" => endpoint.rawExtractor]_vars

\* A request ran all six stages.
C10_Witness ==
    /\ pc = "done"
    /\ stages = << "readBody", "decode", "extractRaw", "validate", "execute", "respond" >>

\* C11: when the handler returned a response whose type has no raw-response
\* capability, the sink receives the JSON content type, the endpoint's
\* configured success status and the JSON encoding of the response with no
\* wrapper, in that order and first; when the response cannot be marshaled
\* no success status is written and the answer is the generic 500 envelope.
C11_JSONSuccessResponse ==
    (Terminal /\ Ran("respond") /\ ~endpoint.rawResponder) =>
        IF resp.encodable
        THEN /\ w.contentType = ContentTypeJSON
             /\ Len(w.headerCalls) >= 1
             /\ w.headerCalls[1] = endpoint.meta.StatusCode
             /\ Len(w.writes) >= 1
             /\ w.writes[1] = MarshalResponse(resp)
        ELSE AnsweredWith(NewInternalServerError(MsgInternal))

\* The extractor read r.Body and the path value (it did not fail).
ExtractorRead == Ran("extractRaw") /\ req.id # ZeroRequest.id

\* C12: for a request other than GET whose body was read and decoded, r.Body
\* is a fresh reader over the bytes read when raw extraction starts, and an
\* extractor that reads r.Body obtains exactly the bytes the pipeline
\* decoded, next to the decoded fields.
C12_BodyStaysReadable ==
    /\ (request.method = "POST" /\ pc = "extract") => rBody = "buffered"
    /\ (request.method = "POST" /\ Ran("decode") /\ ExtractorRead) =>
          /\ req.rawPayload = << request.body >>
          /\ req.message = Unmarshal(request.body, ZeroRequest).req.message
          /\ req.label = Unmarshal(request.body, ZeroRequest).req.label

\* A POST body was decoded and then read again by ExtractRaw.
C12_Witness ==
    /\ request.method = "POST"
    /\ request.body = Body("object", "Hello.", "absent")
    /\ Ran("decode")
    /\ ExtractorRead
    /\ req.message = "Hello."
    /\ req.rawPayload = << Body("object", "Hello.", "absent") >>

\* What a raw responder leaves in the sink: nothing, or its own status and
\* bytes.
RawResponderSinks ==
    { EmptySink, Write(WriteHeader(EmptySink, StatusOK), RawPayloadBytes) }

\* C13: when the response type implements RawResponder the sink holds only
\* what RespondRaw wrote (no JSON content type, no JSON body, no error
\* envelope), and RespondRaw's outcome is not classified: nothing is
\* reinterpreted and nothing is logged for it.
C13_RawResponseBypassesPipeline ==
    (Ran("respond") /\ endpoint.rawResponder) =>
        /\ w \in RawResponderSinks
        /\ EnvelopeWrites = { }
        /\ pc \notin { "classify", "panicked" }
        /\ interpreted = NoError
        /\ log = << >>

\* The run ended with an error returned by the request type's ExtractRaw.
ExtractorFailed == LastStage = "extractRaw" /\ pipelineErr # NoError

\* C14: when ExtractRaw returns an error neither validation nor the handler
\* runs, and the response is the one the extractor chose: when its error
\* carries an envelope, exactly that envelope and status are written.
C14_ExtractorErrorAsIs ==
    (Terminal /\ ExtractorFailed) =>
        /\ ~Ran("validate")
        /\ ~Ran("execute")
        /\ HasKind(pipelineErr, "api") => AnsweredWith(FirstOfKind(pipelineErr, "api"))

\* C15: for a request other than GET an empty body is valid: the decode
\* stage is skipped, no error is raised by it and the request value is the
\* zero value when raw extraction (and, without an extractor, validation)
\* starts; a malformed non-empty body is answered with the 400 envelope
\* "Error unmarshaling request body: <decoder's message>." and decode is the
\* last stage that runs.
C15_EmptyBodyValidMalformedIs400 ==
    /\ (request.method = "POST" /\ request.body = EmptyBody
          /\ pc \notin { "ready", "readBody", "decode" }) =>
          /\ ~Ran("decode")
          /\ pc = "extract" => (req = ZeroRequest /\ pipelineErr = NoError)
          /\ (pc = "validate" /\ ~endpoint.rawExtractor) =>
                (req = ZeroRequest /\ pipelineErr = NoError)
    /\ (Terminal /\ request.method = "POST" /\ request.body.kind = "malformed") =>
          /\ AnsweredWith(NewBadRequestf(MsgUnmarshal,
                                         Unmarshal(request.body, ZeroRequest).msg))
          /\ stages = << "readBody", "decode" >>

\* The non-empty bodies that are not a JSON object.
NotAnObject == { "null", "array", "malformed" }

\* C16: for a request other than GET every non-empty body that is not a
\* single JSON object (the literal null, an array, malformed text) ends the
\* run at the decode stage with a 400 envelope; validation and the handler
\* are never reached.
C16_OnlyObjectBodiesDecode ==
    (request.method = "POST" /\ request.body.kind \in NotAnObject) =>
        /\ ~Ran("extractRaw")
        /\ ~Ran("validate")
        /\ ~Ran("execute")
        /\ Terminal =>
              /\ w.headerCalls = << StatusBadRequest >>
              /\ HasKind(pipelineErr, "api")
              /\ stages = << "readBody", "decode" >>

\* C17: after Mount with nil options or a nil Logger the endpoint and the
\* pipeline both hold a usable logger, so no run panics on it and every run
\* that ends has written a response; a run that ended in an error has
\* logged it.
C17_DefaultLoggerEverywhere ==
    /\ pc # "unmounted" => epLogger \in { "default", "custom" }
    /\ registered => logger \in { "default", "custom" }
    /\ pc # "panicked"
    /\ Terminal =>
          /\ w # EmptySink \/ endpoint.rawResponder
          /\ pipelineErr # NoError => log # << >>

\* C18: Mount calls Meta() once.  When the metadata has an empty Pattern or
\* a zero StatusCode Mount panics: nothing is registered, nothing is injected
\* with SetMeta and no request is ever dispatched.  Otherwise the value
\* Meta() returned is the one injected into the endpoint and the one the
\* handler closure runs the pipeline with.
C18_InvalidMetaPanicsAtMount ==
    /\ pc # "unmounted" => metaCalls = 1
    /\ (pc # "unmounted"
          /\ (endpoint.meta.Pattern = "" \/ endpoint.meta.StatusCode = 0)) =>
          /\ pc = "mountPanic"
          /\ ~registered
          /\ epMeta = NoMeta
          /\ request = NoRequest
          /\ stages = << >>
          /\ w = EmptySink
    /\ registered =>
          /\ epMeta = endpoint.meta
          /\ meta = endpoint.meta
    /\ request # NoRequest =>
          /\ registered
          /\ request.method = PatternMethod(endpoint.meta.Pattern)

\* Mount panicked on a zero status code, after SetLogger and one Meta() call.
C18_Witness ==
    /\ pc = "mountPanic"
    /\ endpoint.meta.Pattern # ""
    /\ endpoint.meta.StatusCode = 0
    /\ epLogger = "default"
    /\ metaCalls = 1
    /\ ~registered

\* C19: InvokeHandler validates the request, calls the handler and validates
\* the response, in that order.  An invalid request gives the BadRequest of
\* its first violation and the handler is not called; a handler error is
\* returned as it is; an invalid response gives a wrapped error that is no
\* API error and starts with "apitest: error validating response API
\* resource"; the handler's response is returned, with a nil error, only
\* when all three steps passed.
C19_InvokeHandlerSteps ==
    direct.called =>
        IF Violations(endpoint.requiresMessage, req) # << >>
        THEN /\ ~direct.handlerInvoked
             /\ direct.resp = NoResponse
             /\ direct.err =
                   << NewBadRequest(Violations(endpoint.requiresMessage, req)[1]) >>
        ELSE /\ direct.handlerInvoked
             /\ IF LastStage = "execute"
                THEN /\ direct.err = pipelineErr
                     /\ direct.resp = NoResponse
                ELSE IF resp.message = ""
                     THEN /\ direct.resp = NoResponse
                          /\ Len(direct.err) = 2
                          /\ direct.err[1] = WrapError(MsgResponseInvalid)
                          /\ ~HasKind(direct.err, "api")
                     ELSE /\ direct.err = NoError
                          /\ direct.resp = resp

\* InvokeHandler called a handler whose response fails validation.
C19_Witness ==
    /\ direct.called
    /\ direct.handlerInvoked
    /\ resp.kind = "value"
    /\ resp.message = ""
    /\ direct.resp = NoResponse
    /\ direct.err # NoError

\* InvokeHandler was called after a pipeline run of an endpoint whose types
\* have no raw capabilities, with a request value that passes validation.
Comparable ==
    /\ direct.called
    /\ ~endpoint.rawExtractor
    /\ ~endpoint.rawResponder
    /\ Violations(endpoint.requiresMessage, req) = << >>

\* The sink of a successful JSON response.
SuccessSink(response) ==
    Write(WriteHeader(SetContentType(EmptySink, ContentTypeJSON),
                      endpoint.meta.StatusCode),
          MarshalResponse(response))

DecodedValue(fragment) == IF fragment = "empty" THEN "" ELSE fragment

\* The fragments that are a value of the inner type.
ValueFragments == { "empty", "a", "0", "1" }

\* C21: decoding a payload into a zero-valued field: no key leaves it absent
\* (Set false, Value nil); the literal null gives Set true and Value nil; a
\* value gives Set true and Value pointing at exactly that value, the empty
\* string included; a fragment whose inner decode fails makes the decode of
\* the whole payload return an error.
C21_DecodeIntoZeroField ==
    Len(fragments) = 1 =>
        /\ fragments[1] = "absent" => (ps = ExplicitNullable(FALSE, << >>) /\ decodeErr = NoError)
        /\ fragments[1] = "null" => (ps = ExplicitNullable(TRUE, << >>) /\ decodeErr = NoError)
        /\ fragments[1] \in ValueFragments =>
              /\ ps = ExplicitNullable(TRUE, << DecodedValue(fragments[1]) >>)
              /\ decodeErr = NoError
        /\ fragments[1] \in { "mismatch", "malformed" } => decodeErr # NoError

\* The empty string was decoded into a zero-valued field.
C21_Witness ==
    /\ T = "string"
    /\ fragments = << "empty" >>
    /\ ps = ExplicitNullable(TRUE, << "" >>)
    /\ decodeErr = NoError

\* C22: ExtractExplicitNullableValueForValidation returns nil for a field
\* that is absent or explicit null, and the inner value for a field holding
\* one, also when it is the zero value.  So under omitempty,min=1 the payloads
\* {}, {"label":null} and {"label":"a"} are valid and {"label":""} is not.
C22_ExtractionForValidation ==
    /\ (~ps.Set \/ ps.Value = << >>) =>
          ExtractExplicitNullableValueForValidation(ps) = << >>
    /\ (ps.Set /\ ps.Value # << >>) =>
          ExtractExplicitNullableValueForValidation(ps) = ps.Value
    /\ (T = "string" /\ Len(fragments) = 1 /\ validation.outcome # "none") =>
          /\ validation.extracted
          /\ fragments[1] \in { "absent", "null" } =>
                (validation.subject = << >> /\ validation.outcome = "valid")
          /\ fragments[1] = "empty" =>
                (validation.subject = << "" >> /\ validation.outcome = "invalid")
          /\ fragments[1] = "a" =>
                (validation.subject = << "a" >> /\ validation.outcome = "valid")

\* The payload {"label":""} was decoded and found invalid.
C22_Witness ==
    /\ T = "string"
    /\ fragments = << "empty" >>
    /\ ps = ExplicitNullable(TRUE, << "" >>)
    /\ validation.extracted
    /\ validation.outcome = "invalid"

\* C23: in every state a field reaches from its zero value by decodes,
\* failed ones included, Set false implies Value nil.
C23_UnsetHasNoValue == ~ps.Set => ps.Value = << >>

\* Two decodes, one of them failed, left the field unset.
C23_Witness ==
    /\ fragments = << "malformed", "absent" >>
    /\ ~ps.Set
    /\ ps.Value = << >>

\* C24: when the pipeline writes an error envelope the sink receives, once,
\* the JSON content type, the envelope's status and a body holding only its
\* message, whether or not the write succeeds; the same envelope with any
\* other internal cause, attached by WithInternalError, has the same message
\* and status and gives the identical response.
C24_WireDependsOnMessageAndStatus ==
    [][(pc = "classify" /\ pc' = "done") =>
          /\ w' = Write(WriteHeader(SetContentType(w, ContentTypeJSON),
                                    ClassifiedEnvelope(interpreted').status),
                        Payload("envelope", ClassifiedEnvelope(interpreted').msg, "", << >>))
          /\ \A cause \in { NoError, pipelineErr, << PlainError >> } :
                /\ WithInternalError(ClassifiedEnvelope(interpreted'), cause).msg
                      = ClassifiedEnvelope(interpreted').msg
                /\ WithInternalError(ClassifiedEnvelope(interpreted'), cause).status
                      = ClassifiedEnvelope(interpreted').status
                /\ APIErrorWrite(WithInternalError(ClassifiedEnvelope(interpreted'), cause), w)
                      = w']_vars

\* An envelope that carries an internal cause was written, and the write
\* failed: one write, the failure logged.
C24_Witness ==
    /\ pc = "done"
    /\ HasKind(interpreted, "api")
    /\ FirstOfKind(interpreted, "api").internal # NoError
    /\ w.writes = << Payload("envelope", MsgConnect, "", << >>) >>
    /\ w.headerCalls = << StatusBadRequest >>
    /\ \E i \in 1..Len(log) : log[i].msg = "error writing API error"

\* The status the sink committed: the first WriteHeader call.
CommittedStatus == IF w.headerCalls = << >> THEN 0 ELSE w.headerCalls[1]

\* C26: the pipeline commits a status at most once per response and the
\* body that follows belongs to it: no error envelope (status or body) is
\* written after the endpoint's success status or after a raw responder
\* wrote to the sink.
C26_StatusCommittedOnce ==
    /\ Len(w.headerCalls) <= 1
    /\ Len(w.writes) <= 1
    /\ EnvelopeWrites # { } =>
          /\ CommittedStatus >= StatusBadRequest
          /\ \A i \in 1..Len(w.writes) : w.writes[i].kind = "envelope"

\* The last fragment decoded into the field.
LastFragment == fragments[Len(fragments)]

\* C27: whatever the field held before, after decoding the literal null it
\* is explicit null (Set true, Value nil) and after decoding a value it is
\* Set with exactly that value: the result is what the same fragment gives on
\* a zero-valued field.
C27_LastFragmentDecides ==
    (fragments # << >> /\ LastFragment \in ValueFragments \cup { "null" }) =>
        /\ ps = UnmarshalJSON(ZeroNullable, LastFragment)
        /\ LastFragment = "null" => ps = ExplicitNullable(TRUE, << >>)

\* C28: for a field of type ExplicitNullable[T], whatever T is, the validator
\* of NewValidator calls the extraction before it applies the field's rules:
\* the rules are skipped for an absent or explicit-null field and applied to
\* the inner value of a field that holds one.
C28_ExtractionForEveryInnerType ==
    validation.outcome # "none" =>
        /\ validation.extracted
        /\ validation.subject = ExtractExplicitNullableValueForValidation(ps)
        /\ (~ps.Set \/ ps.Value = << >>) => validation.outcome = "valid"

\* The data both executions read: the endpoint, its metadata and loggers.
sharedVars == << endpoint, epLogger, epMeta, metaCalls, meta, registered, logger >>

\* The response of execution e is the one its request gets when it runs
\* alone on the mounted endpoint (no raw capabilities): its own body decides
\* the decode and validation outcome, a successful run answers with the
\* success status and the JSON of its own decoded request, an error run with
\* the envelope of its own error.
RunsAsAlone(e) ==
    e.pc \in { "done", "panicked" } =>
        /\ ~Unmarshal(e.request.body, ZeroRequest).ok =>
              e.pipelineErr =
                 << NewBadRequestf(MsgUnmarshal, Unmarshal(e.request.body, ZeroRequest).msg) >>
        /\ (Unmarshal(e.request.body, ZeroRequest).ok
              /\ Violations(endpoint.requiresMessage,
                            Unmarshal(e.request.body, ZeroRequest).req) # << >>) =>
              e.pipelineErr =
                 << NewBadRequest(PublicFacingMessage(
                       Violations(endpoint.requiresMessage,
                                  Unmarshal(e.request.body, ZeroRequest).req))) >>
        /\ (Unmarshal(e.request.body, ZeroRequest).ok
              /\ Violations(endpoint.requiresMessage,
                            Unmarshal(e.request.body, ZeroRequest).req) = << >>) =>
              /\ e.handlerReturned
              /\ e.req = Unmarshal(e.request.body, ZeroRequest).req
              /\ e.pipelineErr = NoError =>
                    e.w = Write(WriteHeader(SetContentType(EmptySink, ContentTypeJSON),
                                            endpoint.meta.StatusCode),
                                MarshalResponse(
                                   Response(Unmarshal(e.request.body, ZeroRequest).req, TRUE)))
        /\ (e.pc = "done" /\ e.pipelineErr # NoError) =>
              /\ e.w.writes[Len(e.w.writes)] =
                    MarshalAPIError(
                       ClassifiedEnvelope(maybeInterpretInternalError(e.pipelineErr)))
              /\ e.w.headerCalls[Len(e.w.headerCalls)] =
                    ClassifiedEnvelope(maybeInterpretInternalError(e.pipelineErr)).status
        /\ e.pc = "panicked" => (e.pipelineErr # NoError /\ e.w.writes \in { << >>,
              << MarshalResponse(Response(Unmarshal(e.request.body, ZeroRequest).req, TRUE)) >> })

\* C25: with two executions interleaved in every way, a step of one leaves
\* the other's state and the shared endpoint data untouched, and each
\* response equals the one the request gets alone.
C25_ConcurrentRunsDoNotInterfere ==
    [][/\ registered => UNCHANGED sharedVars
       /\ parked' = parked \/ (parked' = Execution /\ Execution' = parked)
       /\ RunsAsAlone(Execution)'
       /\ RunsAsAlone(parked)']_vars

\* Both executions are in flight: one has its handler's response in hand,
\* the other, with a different body, has failed validation and is about to
\* classify its error.
C25_Witness ==
    /\ pc = "respond"
    /\ parked.pc = "classify"
    /\ request.body = Body("object", "Hello.", "absent")
    /\ parked.request.body = Body("object", "", "absent")
    /\ resp.message = "Hello."
    /\ parked.pipelineErr = << NewBadRequest(MsgRequired) >>

====
